---------------------------- MODULE Spec2Model ----------------------------
(***************************************************************************)
(* Model of server/fetch-asset-history.py: the command-line shim, the      *)
(* batch dispatcher on a ThreadPoolExecutor, and fetch_history with its    *)
(* fund-family chunk loop and its market-family download; and of the       *)
(* collaborator scripts of server/: the name lookups, the single-symbol    *)
(* price lookups and the two list bootstraps.  A run executes one script.  *)
(*                                                                         *)
(* Calendar dates are day numbers; a datetime is <<day, tod>> where tod is *)
(* the time of day (0 = exactly midnight, 1 = any later instant).  The     *)
(* clock is read once at the start of a run (the variable now).            *)
(* A stream (sys.stdout, sys.stderr) is 0 for the process's original       *)
(* stream and i > 0 for the os.devnull file opened by task i; that file is *)
(* open exactly while task i is inside its with-block.                     *)
(***************************************************************************)
EXTENDS Integers, Sequences, FiniteSets

(* ------------------------------ bounds -------------------------------- *)

\* longest input array of the mixed batch scenarios
MaxReq == 3
\* length of the input array of the pool scenario (more than max_workers)
NumPool == 11
\* the day number of the current date
Today == 400
\* earliest start date of the chunk scenarios, in days before Today
MaxBack == 183

(* ------------------------- program constants -------------------------- *)

\* ThreadPoolExecutor(max_workers=10)
MaxWorkers == 10
\* timedelta(days=90)
ChunkDays == 90
\* timedelta(days=30), the fallback start
FallbackDays == 30
\* timedelta(days=1), the step to the next chunk
StepDays == 1

(* ------------------------------ values -------------------------------- *)

\* what dict.get returns for a missing key or a JSON null
None == "<None>"

\* the original stream of the process
Orig == 0

\* a startDate value: a string that parses as YYYY-MM-DD (k = "date"),
\* another non-empty string (k = "bad"), the empty string, or None
DateStr(d) == [k |-> "date", d |-> d]
BadDateStr == [k |-> "bad", d |-> 0]
EmptyDateStr == [k |-> "empty", d |-> 0]
NoDate == [k |-> "none", d |-> 0]

\* one row of an upstream table; price -1 stands for a value float() rejects
Row(d, p) == [date |-> d, price |-> p]
BadPrice == 0 - 1

\* one upstream answer: the call raises, or returns a table of rows
Raises == [raises |-> TRUE, rows |-> <<>>]
Table(rows) == [raises |-> FALSE, rows |-> rows]

\* a JSON request object and an array element that is no object
Obj(sym, typ, sda) == [obj |-> TRUE, symbol |-> sym, type |-> typ, startDate |-> sda]
NonObj == [obj |-> FALSE, symbol |-> None, type |-> None, startDate |-> NoDate]

\* the script files
MainScript == "fetch-asset-history.py"
GetAssetName == "get-asset-name.py"
GetEtfName == "get-etf-name.py"
FetchBistPrice == "fetch-bist-price.py"
FetchUsStockPrice == "fetch-us-stock-price.py"
FetchTefasPrice == "fetch-tefas-price.py"
FetchBefasPrice == "fetch-befas-price.py"
FetchCryptoPrice == "fetch-crypto-price.py"
FetchEtfDatabase == "fetch-etf-database.py"
TumPiyasaListesi == "tum_piyasa_listesi.py"

\* the names the lookups return when yfinance knows no name, or raises
IsimBulunamadi == "Isim Bulunamadi"
BilinmeyenKod == "Bilinmeyen Kod"

\* a line of text printed by a bootstrap script
TextLine(msg) == [kind |-> "text", items |-> msg]

(* ------------------------- pure functions ----------------------------- *)

\* Python truthiness of a string-or-None field
Truthy(x) == x # None /\ x # ""

\* Python truthiness of a startDate value
TruthyDate(x) == x.k \in {"date", "bad"}

\* process_req: if sym and typ and sda
Valid(req) == Truthy(req.symbol) /\ Truthy(req.type) /\ TruthyDate(req.startDate)

\* str.upper on the symbols of the model
Upper(s) ==
    CASE s = "mac" -> "MAC"
      [] s = "btc" -> "BTC"
      [] s = "thyao.is" -> "THYAO.IS"
      [] OTHER -> s

\* str.endswith on the upper-cased symbols of the model
EndsWith(s, suffix) ==
    \/ suffix = ".IS" /\ s \in {"THYAO.IS"}
    \/ suffix = "-USD" /\ s \in {"BTC-USD"}

\* the symbol sent to the market-data provider
FormatSymbol(symbol, asset_type) ==
    LET u == Upper(symbol) IN
    IF asset_type = "hisse" /\ ~EndsWith(u, ".IS") THEN u \o ".IS"
    ELSE IF asset_type = "kripto" /\ ~EndsWith(u, "-USD") THEN u \o "-USD"
    ELSE u

\* the fund family
IsFund(asset_type) == asset_type \in {"fon", "befas"}

\* every fund is queried as an investment fund
ParamKindYat(asset_type) == "YAT"

\* the kind parameter of the fund client
ParamKind(asset_type) == IF asset_type = "befas" THEN "EMK" ELSE "YAT"

\* datetime comparison
DtLess(a, b) == a[1] < b[1] \/ (a[1] = b[1] /\ a[2] < b[2])

\* datetime + timedelta(days=n)
DtPlus(a, n) == <<a[1] + n, a[2]>>

\* strftime("%Y-%m-%d"): the time of day is dropped
FormatDate(a) == a[1]

\* a window one day shorter
ChunkEndShort(current_start, end_date) ==
    LET e == DtPlus(current_start, ChunkDays - 1) IN
    IF DtLess(end_date, e) THEN end_date ELSE e

\* chunk_end of a window that starts at current_start
ChunkEnd(current_start, end_date) ==
    LET e == DtPlus(current_start, ChunkDays) IN
    IF DtLess(end_date, e) THEN end_date ELSE e

\* the rows converted before the first row float() rejects
RECURSIVE GoodPrefix(_)
GoodPrefix(rows) ==
    IF rows = <<>> THEN <<>>
    ELSE IF Head(rows).price = BadPrice THEN <<>>
    ELSE <<Head(rows)>> \o GoodPrefix(Tail(rows))

\* whether converting the rows raises
ConvertRaises(rows) == \E k \in 1..Len(rows) : rows[k].price = BadPrice

\* a price point of the result
Point(row) == [date |-> row.date, price |-> row.price]

\* the points of a sequence of rows
Points(rows) == [k \in 1..Len(rows) |-> Point(rows[k])]

\* index of key in a sequence of <<key, value>> pairs, 0 when absent
RECURSIVE IndexOf(_, _, _)
IndexOf(items, key, k) ==
    IF k > Len(items) THEN 0
    ELSE IF items[k][1] = key THEN k
    ELSE IndexOf(items, key, k + 1)

\* the mutant of DictSet: an existing key keeps its first value
DictSetKeepFirst(items, key, value) ==
    IF IndexOf(items, key, 1) = 0 THEN Append(items, <<key, value>>) ELSE items

\* batch_results[sym] = data on an insertion-ordered dict
DictSet(items, key, value) ==
    LET k == IndexOf(items, key, 1) IN
    IF k = 0 THEN Append(items, <<key, value>>)
    ELSE [items EXCEPT ![k] = <<key, value>>]

\* json.dumps of a dict and of a list
DumpsObject(items) == [kind |-> "object", items |-> items]
DumpsArray(list) == [kind |-> "array", items |-> list]


(* ------------------------------ input texts --------------------------- *)

\* a text handed to the process: k = "json" starts with '[' and parses to
\* the array reqs; k = "badjson" starts with '[' and json.loads raises;
\* k = "plain" does not start with '[' (s is the text, d the text as a date)
JsonText(reqs) == [k |-> "json", reqs |-> reqs, s |-> "", d |-> NoDate]
BrokenJson == [k |-> "badjson", reqs |-> <<>>, s |-> "", d |-> NoDate]
Plain(s, d) == [k |-> "plain", reqs |-> <<>>, s |-> s, d |-> d]
EmptyText == Plain("", EmptyDateStr)

\* the mutant of StartsWithBracket: every non-empty text is taken as a batch
StartsWithAnything(text) == text # EmptyText

\* input_arg.strip().startswith('[')
StartsWithBracket(text) == text.k \in {"json", "badjson"}

(* ------------------------------- state -------------------------------- *)

VARIABLES
    script,         \* the script file the process runs
    disk,           \* the files the process has written
    argv,           \* sys.argv[1:], a sequence of texts
    stdin_tty,      \* sys.stdin.isatty()
    stdin_text,     \* what sys.stdin.read() returns
    now,            \* datetime.now()
    up,             \* up[i]: the upstream's answers to the calls of request i;
                    \* for a collaborator script, what its lookups yield
    pc,             \* position of the main thread
    input_arg,      \* the selected input text
    requests,       \* the parsed array (or the one legacy request)
    submitted,      \* number of futures created so far
    idx,            \* index of the future the result loop waits for
    batch_results,  \* the dict, as <<key, series>> pairs in insertion order
    sys_stdout,     \* the process-wide sys.stdout
    sys_stderr,     \* the process-wide sys.stderr
    out,            \* documents written to the original standard output
    diag,           \* whether anything was written to the original stderr
    status,         \* exit status, -1 while running
    tpc,            \* tpc[i]: position of task i
    saved_out,      \* saved_out[i]: redirect_stdout._old_targets of task i
    saved_err,      \* saved_err[i]: redirect_stderr._old_targets of task i
    current_start,  \* current_start[i] of the chunk loop
    calls,          \* calls[i]: the upstream calls task i has made
    results,        \* results[i]: the list fetch_history is building
    ret,            \* ret[i]: outcome of the future (or of the legacy call)
    lastDone        \* lastDone[s]: the task that last completed with symbol s

inputs == <<script, argv, stdin_tty, stdin_text, now, up>>
mainvars == <<pc, input_arg, requests, submitted, idx, batch_results>>
streams == <<sys_stdout, sys_stderr>>
outputs == <<out, diag, status>>
taskvars == <<tpc, saved_out, saved_err, current_start, calls, results, ret, lastDone>>
vars == <<inputs, disk, mainvars, streams, outputs, taskvars>>

\* the symbols of the model
Symbols == {"mac", "MAC", "btc", "thyao.is", ""}

\* outcome of a task: it raised, or it returned (sym, data)
Raised == [exc |-> TRUE, sym |-> None, data |-> <<>>]
Returned(sym, data) == [exc |-> FALSE, sym |-> sym, data |-> data]
Pending == [exc |-> FALSE, sym |-> None, data |-> <<>>]

Tasks == 1..Len(requests)

\* the devnull file of task j is open while j is inside its with-block
IsOpen(j) == j # Orig /\ tpc[j] \in {"in", "loop"}

\* what a write to a stream does: it reaches the original stream, it is
\* swallowed by an open devnull, or it raises ValueError on a closed file
WriteResult(stream) ==
    IF stream = Orig THEN "written"
    ELSE IF IsOpen(stream) THEN "swallowed"
    ELSE "raises"

\* the k-th answer of the upstream to request i
AnswerAt(i, k) == IF k <= Len(up[i]) THEN up[i][k] ELSE Table(<<>>)

\* an upstream call as the client receives it
FundCall(symbol, asset_type, s, e) ==
    [src |-> "tefas", name |-> Upper(symbol), kind |-> ParamKind(asset_type),
     start |-> DateStr(s), end |-> e]
MarketCall(symbol, asset_type, start_date_str) ==
    [src |-> "yfinance", name |-> FormatSymbol(symbol, asset_type), kind |-> "",
     start |-> start_date_str, end |-> 0]

(* ---------------------------- main thread ----------------------------- *)

\* the task state right after the futures list (or the legacy call) is set up
NewTasks(n, first) ==
    /\ tpc' = [i \in 1..n |-> first]
    /\ saved_out' = [i \in 1..n |-> Orig]
    /\ saved_err' = [i \in 1..n |-> Orig]
    /\ current_start' = [i \in 1..n |-> <<0, 0>>]
    /\ calls' = [i \in 1..n |-> <<>>]
    /\ results' = [i \in 1..n |-> <<>>]
    /\ ret' = [i \in 1..n |-> Pending]
    /\ UNCHANGED lastDone

\* print(doc): the write goes to whatever sys.stdout is now
PrintDoc(doc, onRaise) ==
    LET w == WriteResult(sys_stdout) IN
    /\ out' = IF w = "written" THEN Append(out, doc) ELSE out
    /\ IF w = "raises"
       THEN /\ pc' = onRaise
            /\ status' = IF onRaise = "exit" THEN 1 ELSE status
       ELSE /\ pc' = "exit"
            /\ status' = 0

\* lines 117-123: the input is argv[1], else piped stdin, else "[]"
ReadInput ==
    /\ pc = "start"
    /\ input_arg' = IF Len(argv) > 0 THEN argv[1]
                    ELSE IF ~stdin_tty THEN stdin_text
                    ELSE JsonText(<<>>)
    /\ pc' = "try"
    /\ UNCHANGED <<inputs, disk, requests, submitted, idx, batch_results, streams,
                   outputs, taskvars>>

\* lines 127-129: a text that starts with '[' is parsed; json.loads may raise
ParseBatch ==
    /\ pc = "try"
    /\ StartsWithBracket(input_arg)
    /\ IF input_arg.k # "json"
       THEN /\ pc' = "except"
            /\ UNCHANGED <<requests, taskvars>>
       ELSE /\ requests' = input_arg.reqs
            /\ pc' = IF Len(input_arg.reqs) = 0 THEN "shutdown" ELSE "submit"
            /\ NewTasks(Len(input_arg.reqs), "new")
    /\ UNCHANGED <<inputs, disk, input_arg, submitted, idx, batch_results, streams, outputs>>

\* lines 151-157: three positional arguments call fetch_history directly
LegacyCall ==
    /\ pc = "try"
    /\ ~StartsWithBracket(input_arg)
    /\ Len(argv) >= 3
    /\ requests' = <<Obj(argv[1].s, argv[2].s, argv[3].d)>>
    /\ NewTasks(1, "run")
    /\ pc' = "legacy"
    /\ UNCHANGED <<inputs, disk, input_arg, submitted, idx, batch_results, streams, outputs>>

\* lines 159-160: anything else prints the empty array
LegacyEmpty ==
    /\ pc = "try"
    /\ ~StartsWithBracket(input_arg)
    /\ Len(argv) < 3
    /\ PrintDoc(DumpsArray(<<>>), "except")
    /\ UNCHANGED <<inputs, disk, input_arg, requests, submitted, idx, batch_results,
                   streams, diag, taskvars>>

\* line 143: executor.submit(process_req, req), one request after the other
Submit ==
    /\ pc = "submit"
    /\ submitted < Len(requests)
    /\ submitted' = submitted + 1
    /\ tpc' = [tpc EXCEPT ![submitted + 1] = "queued"]
    /\ pc' = IF submitted + 1 = Len(requests) THEN "collect" ELSE "submit"
    /\ UNCHANGED <<inputs, disk, input_arg, requests, idx, batch_results, streams, outputs,
                   saved_out, saved_err, current_start, calls, results, ret, lastDone>>

\* lines 144-147: future.result() in submission order; it re-raises what the
\* task raised, and the assignment is made for a truthy symbol only
Collect ==
    /\ pc = "collect"
    /\ tpc[idx] = "done"
    /\ IF ret[idx].exc
       THEN /\ pc' = "shutdown_exc"
            /\ UNCHANGED <<idx, batch_results>>
       ELSE /\ batch_results' = IF Truthy(ret[idx].sym)
                                THEN DictSet(batch_results, ret[idx].sym, ret[idx].data)
                                ELSE batch_results
            /\ idx' = idx + 1
            /\ pc' = IF idx = Len(requests) THEN "shutdown" ELSE "collect"
    /\ UNCHANGED <<inputs, disk, input_arg, requests, submitted, streams, outputs, taskvars>>

\* the mutant of Shutdown: the with-block is left without waiting
ShutdownNoWait ==
    /\ pc \in {"shutdown", "shutdown_exc"}
    /\ pc' = IF pc = "shutdown" THEN "print" ELSE "except"
    /\ UNCHANGED <<inputs, disk, input_arg, requests, submitted, idx, batch_results,
                   streams, outputs, taskvars>>

\* line 142: leaving the with-block is executor.shutdown(wait=True), also
\* when an exception is on its way out
Shutdown ==
    /\ pc \in {"shutdown", "shutdown_exc"}
    /\ \A i \in Tasks : tpc[i] = "done"
    /\ pc' = IF pc = "shutdown" THEN "print" ELSE "except"
    /\ UNCHANGED <<inputs, disk, input_arg, requests, submitted, idx, batch_results,
                   streams, outputs, taskvars>>

\* line 149: print(json.dumps(batch_results))
PrintBatch ==
    /\ pc = "print"
    /\ PrintDoc(DumpsObject(batch_results), "except")
    /\ UNCHANGED <<inputs, disk, input_arg, requests, submitted, idx, batch_results,
                   streams, diag, taskvars>>

\* line 158: print(json.dumps(hist)); an exception of the call goes to line 162
LegacyPrint ==
    /\ pc = "legacy"
    /\ tpc[1] = "done"
    /\ IF ret[1].exc
       THEN /\ pc' = "except"
            /\ UNCHANGED <<out, status>>
       ELSE PrintDoc(DumpsArray(ret[1].data), "except")
    /\ UNCHANGED <<inputs, disk, input_arg, requests, submitted, idx, batch_results,
                   streams, diag, taskvars>>

\* lines 162-165: the diagnostic, then print(json.dumps({})); an exception
\* raised in here ends the process with status 1
Except ==
    /\ pc = "except"
    /\ LET w == WriteResult(sys_stderr) IN
       IF w = "raises"
       THEN /\ pc' = "exit"
            /\ status' = 1
            /\ UNCHANGED <<out, diag>>
       ELSE /\ diag' = (diag \/ w = "written")
            /\ PrintDoc(DumpsObject(<<>>), "exit")
    /\ UNCHANGED <<inputs, disk, input_arg, requests, submitted, idx, batch_results,
                   streams, taskvars>>

(* ------------------------------- tasks -------------------------------- *)

\* the tasks a worker thread is running (between dequeue and completion)
Running == {j \in Tasks : tpc[j] \in {"run", "in", "loop"}}

\* the mutant of PoolHasRoom: the pool takes one task more than max_workers
PoolHasRoomOffByOne(n) == n <= MaxWorkers

\* ThreadPoolExecutor(max_workers=10): a thread is free for one more task
PoolHasRoom(n) == n < MaxWorkers

\* the future of task i completes with outcome r
Finish(i, r) ==
    /\ tpc' = [tpc EXCEPT ![i] = "done"]
    /\ ret' = [ret EXCEPT ![i] = r]
    /\ lastDone' = IF ~r.exc /\ Truthy(r.sym)
                   THEN [lastDone EXCEPT ![r.sym] = i]
                   ELSE lastDone

\* redirect_stdout.__exit__ and redirect_stderr.__exit__ of task i
Restore(i) ==
    /\ sys_stdout' = saved_out[i]
    /\ sys_stderr' = saved_err[i]

\* lines 108-111, reached after the with-block was left: the write goes to
\* the restored sys.stderr; on a closed file it raises out of fetch_history
AfterError(i) ==
    LET w == WriteResult(saved_err[i]) IN
    /\ diag' = (diag \/ w = "written")
    /\ Finish(i, IF w = "raises" THEN Raised ELSE Returned(requests[i].symbol, <<>>))

\* lines 24-44 and 85-97: open(os.devnull), the two redirects, and for the
\* fund family the start of the chunk loop
Enter(i) ==
    LET req == requests[i] IN
    /\ saved_out' = [saved_out EXCEPT ![i] = sys_stdout]
    /\ saved_err' = [saved_err EXCEPT ![i] = sys_stderr]
    /\ sys_stdout' = i
    /\ sys_stderr' = i
    /\ IF IsFund(req.type)
       THEN /\ tpc' = [tpc EXCEPT ![i] = "loop"]
            /\ current_start' = [current_start EXCEPT ![i] =
                   IF req.startDate.k = "date" THEN <<req.startDate.d, 0>>
                   ELSE DtPlus(now, 0 - FallbackDays)]
       ELSE /\ tpc' = [tpc EXCEPT ![i] = "in"]
            /\ UNCHANGED current_start
    /\ UNCHANGED <<calls, results, ret, lastDone, diag>>

\* a worker thread takes the next work item off the queue
Start(i) ==
    /\ tpc[i] = "queued"
    /\ \A j \in 1..(i - 1) : tpc[j] \notin {"new", "queued"}
    /\ PoolHasRoom(Cardinality(Running))
    /\ tpc' = [tpc EXCEPT ![i] = "run"]
    /\ UNCHANGED <<inputs, disk, mainvars, streams, outputs, saved_out, saved_err,
                   current_start, calls, results, ret, lastDone>>

\* lines 134-140: process_req on a worker thread
ProcessReq(i) ==
    /\ pc # "legacy"
    /\ tpc[i] = "run"
    /\ IF ~requests[i].obj
       THEN /\ Finish(i, Raised)
            /\ UNCHANGED <<streams, saved_out, saved_err, current_start, calls,
                           results, diag>>
       ELSE IF ~Valid(requests[i])
       THEN /\ Finish(i, Returned(None, <<>>))
            /\ UNCHANGED <<streams, saved_out, saved_err, current_start, calls,
                           results, diag>>
       ELSE Enter(i)
    /\ UNCHANGED <<inputs, disk, mainvars, out, status>>

\* line 157: the legacy call enters fetch_history on the main thread
LegacyFetch ==
    /\ pc = "legacy"
    /\ tpc[1] = "run"
    /\ Enter(1)
    /\ UNCHANGED <<inputs, disk, mainvars, out, status>>

\* lines 98-106: yf.download inside the redirects, then the conversion
Download(i) ==
    LET req == requests[i]
        a == AnswerAt(i, 1)
    IN
    /\ tpc[i] = "in"
    /\ calls' = [calls EXCEPT ![i] =
                     <<MarketCall(req.symbol, req.type, req.startDate)>>]
    /\ Restore(i)
    /\ IF a.raises \/ ConvertRaises(a.rows)
       THEN AfterError(i)
       ELSE /\ Finish(i, Returned(req.symbol, Points(a.rows)))
            /\ UNCHANGED diag
    /\ UNCHANGED <<inputs, disk, mainvars, out, status, saved_out, saved_err,
                   current_start, results>>

\* a pass of the chunk loop that tries a failed window again
ChunkRetry(i) ==
    LET req == requests[i]
        chunk_end == ChunkEnd(current_start[i], now)
        a == AnswerAt(i, Len(calls[i]) + 1)
        failed == a.raises \/ ConvertRaises(a.rows)
    IN
    /\ tpc[i] = "loop"
    /\ DtLess(current_start[i], now)
    /\ calls' = [calls EXCEPT ![i] = Append(@,
           FundCall(req.symbol, req.type, FormatDate(current_start[i]),
                    FormatDate(chunk_end)))]
    /\ results' = [results EXCEPT ![i] =
           IF a.raises THEN @ ELSE @ \o Points(GoodPrefix(a.rows))]
    /\ diag' = (diag \/ (failed /\ WriteResult(sys_stderr) = "written"))
    /\ current_start' = [current_start EXCEPT ![i] =
           IF failed THEN @ ELSE DtPlus(chunk_end, StepDays)]
    /\ UNCHANGED <<inputs, disk, mainvars, out, status, streams, tpc, ret, lastDone,
                   saved_out, saved_err>>

\* lines 46-78: one pass of the chunk loop
Chunk(i) ==
    LET req == requests[i]
        chunk_end == ChunkEnd(current_start[i], now)
        a == AnswerAt(i, Len(calls[i]) + 1)
        w == WriteResult(sys_stderr)
    IN
    /\ tpc[i] = "loop"
    /\ DtLess(current_start[i], now)
    /\ calls' = [calls EXCEPT ![i] = Append(@,
           FundCall(req.symbol, req.type, FormatDate(current_start[i]),
                    FormatDate(chunk_end)))]
    /\ results' = [results EXCEPT ![i] =
           IF a.raises THEN @ ELSE @ \o Points(GoodPrefix(a.rows))]
    /\ IF (a.raises \/ ConvertRaises(a.rows)) /\ w = "raises"
       THEN /\ Restore(i)
            /\ AfterError(i)
            /\ UNCHANGED current_start
       ELSE /\ diag' = (diag \/ ((a.raises \/ ConvertRaises(a.rows)) /\ w = "written"))
            /\ current_start' = [current_start EXCEPT ![i] = DtPlus(chunk_end, StepDays)]
            /\ UNCHANGED <<streams, tpc, ret, lastDone>>
    /\ UNCHANGED <<inputs, disk, mainvars, out, status, saved_out, saved_err>>

\* lines 46 and 79-80: the loop condition fails, the with-block is left and
\* the results are returned
LeaveLoop(i) ==
    /\ tpc[i] = "loop"
    /\ ~DtLess(current_start[i], now)
    /\ Restore(i)
    /\ Finish(i, Returned(requests[i].symbol, results[i]))
    /\ UNCHANGED <<inputs, disk, mainvars, outputs, saved_out, saved_err, current_start,
                   calls, results>>

(* ------------------------ collaborator scripts ------------------------ *)

\* get-asset-name.py, yfinance_ile_isim_getir: longName, else shortName,
\* else the not-found name; the alarm's TimeoutError gives the not-found
\* name, any other exception the unknown-code name
AssetYfinanceName(info) ==
    CASE info = "long" -> "long name"
      [] info = "short" -> "short name"
      [] info = "raises" -> BilinmeyenKod
      [] OTHER -> IsimBulunamadi

\* get-asset-name.py, asset_ismi_bul: the CSV first, then yfinance
asset_ismi_bul(lookup) ==
    IF lookup.csv = "hit" THEN "csv name" ELSE AssetYfinanceName(lookup.info)

\* get-etf-name.py, yfinance_ile_isim_getir: info.get('longName', default)
EtfYfinanceName(info) ==
    CASE info = "long" -> "long name"
      [] info = "raises" -> BilinmeyenKod
      [] OTHER -> IsimBulunamadi

\* get-etf-name.py, etf_ismi_bul: the CSV first, then yfinance
etf_ismi_bul(lookup) ==
    IF lookup.csv = "hit" THEN "csv name" ELSE EtfYfinanceName(lookup.info)

\* the end of a script's process: everything but the outputs stays
ScriptEnds ==
    /\ pc' = "exit"
    /\ UNCHANGED <<inputs, input_arg, requests, submitted, idx, batch_results,
                   streams, taskvars>>

\* __main__ of the two name lookups: without a symbol the error object and
\* sys.exit(1), else the name object
NameMain(scr, name) ==
    /\ pc = "script"
    /\ script = scr
    /\ IF Len(argv) < 1
       THEN /\ out' = Append(out, DumpsObject(<< <<"error", "Symbol gerekli">> >>))
            /\ status' = 1
       ELSE /\ out' = Append(out, DumpsObject(<< <<"name", name>> >>))
            /\ status' = 0
    /\ UNCHANGED <<diag, disk>>
    /\ ScriptEnds

\* get-asset-name.py lines 58-65
AssetName == NameMain(GetAssetName, asset_ismi_bul(up))

\* get-etf-name.py lines 35-42
EtfName == NameMain(GetEtfName, etf_ismi_bul(up))

\* str.upper() in CRYPTO_ID_MAP, for the symbols of the model
InCryptoIdMap(symbol) == Upper(symbol) = "BTC"

\* the price function of a single-symbol lookup: the price (as a one-element
\* sequence), or None (the empty sequence) when the answer is empty or the
\* call raises
fiyat_getir(scr, symbol, answer) ==
    IF scr = FetchCryptoPrice /\ ~InCryptoIdMap(symbol) THEN <<>>
    ELSE IF answer = "ok" THEN <<12>>
    ELSE <<>>

\* whether the price function prints the exception to stderr
FiyatWritesStderr(scr, symbol, answer) ==
    /\ answer = "raises"
    /\ \/ scr = FetchBefasPrice
       \/ scr = FetchCryptoPrice /\ InCryptoIdMap(symbol)

\* __main__ of a single-symbol price lookup: the price object, or an error
\* object when the price is None or no symbol was given; the script then
\* runs off its end
PriceMain(scr) ==
    /\ pc = "script"
    /\ script = scr
    /\ IF Len(argv) >= 1
       THEN LET symbol == argv[1].s
                fiyat == fiyat_getir(scr, symbol, up)
            IN
            /\ out' = Append(out,
                   IF fiyat # <<>> THEN DumpsObject(<< <<"price", fiyat[1]>> >>)
                   ELSE DumpsObject(<< <<"error", <<"Could not fetch price for", symbol>> >> >>))
            /\ diag' = (diag \/ FiyatWritesStderr(scr, symbol, up))
       ELSE /\ out' = Append(out, DumpsObject(<< <<"error", "No symbol provided">> >>))
            /\ UNCHANGED diag
    /\ status' = 0
    /\ UNCHANGED disk
    /\ ScriptEnds

BistPrice == PriceMain(FetchBistPrice)
UsStockPrice == PriceMain(FetchUsStockPrice)
TefasPrice == PriceMain(FetchTefasPrice)
BefasPrice == PriceMain(FetchBefasPrice)
CryptoPrice == PriceMain(FetchCryptoPrice)

\* fetch-etf-database.py, etf_veritabani_olustur: download and parse the
\* list, keep Symbol and Name, write etf_listesi.csv (the write is taken to
\* succeed); an exception of the download ("raises") or of the column
\* selection ("nocolumns") is printed to stderr and the script exits with
\* status 1
EtfDatabase ==
    /\ pc = "script"
    /\ script = FetchEtfDatabase
    /\ IF up = "ok"
       THEN /\ out' = out \o <<TextLine("indiriliyor"), TextLine("Basarili"),
                               TextLine("Dosya adi")>>
            /\ disk' = disk \cup {"etf_listesi.csv"}
            /\ status' = 0
            /\ UNCHANGED diag
       ELSE /\ out' = Append(out, TextLine("indiriliyor"))
            /\ diag' = TRUE
            /\ status' = 1
            /\ UNCHANGED disk
    /\ ScriptEnds

\* tum_piyasa_listesi.py, combined_data after the first n downloads: the
\* tables that came with a symbol and a name column
combined_data(n) ==
    (IF n >= 1 /\ up[1] = "ok" THEN <<"Hisse">> ELSE <<>>)
        \o (IF n >= 2 /\ up[2] = "ok" THEN <<"ETF">> ELSE <<>>)

\* tum_piyasa_listesi.py: one of the two downloads.  "ok" gives a table with
\* a symbol and a name column, "nocolumns" a table without them (nothing is
\* appended and nothing printed), "raises" an exception that is printed
PiyasaDownload(at, next, answer, tur) ==
    /\ pc = at
    /\ script = TumPiyasaListesi
    /\ out' = out
           \o (IF at = "script" THEN <<TextLine("Veriler cekiliyor")>> ELSE <<>>)
           \o <<TextLine(<<tur, "indiriliyor">>)>>
           \o (CASE answer = "ok" -> <<TextLine(<<tur, "yuklendi">>)>>
                 [] answer = "raises" -> <<TextLine(<<tur, "yuklenemedi">>)>>
                 [] OTHER -> <<>>)
    /\ pc' = next
    /\ UNCHANGED <<inputs, disk, input_arg, requests, submitted, idx, batch_results,
                   streams, diag, status, taskvars>>

\* lines 15-29: the stock list
PiyasaStocks == PiyasaDownload("script", "etfs", up[1], "Hisse")

\* lines 31-48: the ETF list
PiyasaEtfs == PiyasaDownload("etfs", "save", up[2], "ETF")

\* lines 50-60: concatenate and write tum_piyasa_listesi.csv when something
\* was loaded (the write is taken to succeed); the script then runs off its
\* end
PiyasaSave ==
    /\ pc = "save"
    /\ script = TumPiyasaListesi
    /\ IF combined_data(2) # <<>>
       THEN /\ disk' = disk \cup {"tum_piyasa_listesi.csv"}
            /\ out' = Append(out, TextLine("TAMAM"))
       ELSE /\ out' = Append(out, TextLine("Hicbir veri yuklenemedi"))
            /\ UNCHANGED disk
    /\ status' = 0
    /\ UNCHANGED diag
    /\ ScriptEnds

(* --------------------------- initial states --------------------------- *)

\* the rows the upstream returns in the scenarios
RowA == Row(Today - 1, 11)
RowB == Row(Today, 12)
RowBad == Row(Today, BadPrice)

\* a request together with the upstream's answers to its calls
MarketOk == <<Obj("btc", "kripto", DateStr(Today - 1)), <<Table(<<RowA, RowB>>)>> >>
MarketFail == <<Obj("btc", "kripto", DateStr(Today)), <<Raises>> >>
FundPartial == <<Obj("mac", "fon", DateStr(Today - 91)), <<Raises, Table(<<RowA>>)>> >>
FundFail == <<Obj("MAC", "befas", DateStr(Today)), <<Raises>> >>
FundLate == <<Obj("mac", "fon", DateStr(Today - 91)), <<Table(<<RowA>>), Raises>> >>
FundBadDate == <<Obj("mac", "fon", BadDateStr), <<Raises>> >>
Dropped == <<Obj("mac", None, DateStr(Today)), <<>> >>
NotAnObject == <<NonObj, <<>> >>

BatchUnits == {MarketOk, MarketFail, FundFail, Dropped, NotAnObject}

\* every input array of at most MaxReq of these requests, four arrays with
\* a fund request of two windows and one with a fund request whose start
\* date does not parse
Batches ==
    UNION {[1..n -> BatchUnits] : n \in 0..MaxReq}
        \cup {<<FundPartial>>, <<FundPartial, MarketOk>>,
              <<MarketOk, MarketFail, FundPartial>>,
              <<MarketOk, MarketFail, FundLate>>,
              <<MarketOk, MarketFail, FundBadDate>>}

\* one request for every combination of present, empty and missing fields
FieldUnits ==
    {<<Obj(s, t, d), <<Table(<<RowA>>)>> >> :
        s \in {None, "", "mac"}, t \in {None, "", "fon", "hisse"},
        d \in {NoDate, EmptyDateStr, BadDateStr, DateStr(Today)}}

\* NumPool requests, all dropped except the first and the last
PoolBatch ==
    [i \in 1..NumPool |-> IF i \in {1, NumPool} THEN MarketOk ELSE Dropped]

\* the answers of the fund client to one window
ChunkAnswers == {Raises, Table(<<>>), Table(<<RowA, RowB>>), Table(<<RowA, RowBad, RowB>>)}

\* the start dates of the chunk scenarios
StartDates ==
    {DateStr(d) : d \in (Today - MaxBack)..(Today + 1)} \cup {BadDateStr, EmptyDateStr}

Reqs(batch) == [i \in 1..Len(batch) |-> batch[i][1]]
Ups(batch) == [i \in 1..Len(batch) |-> batch[i][2]]

InitWith(a, tty, text, clock, answers) ==
    /\ script = MainScript
    /\ disk = {}
    /\ argv = a
    /\ stdin_tty = tty
    /\ stdin_text = text
    /\ now = clock
    /\ up = answers
    /\ pc = "start"
    /\ input_arg = EmptyText
    /\ requests = <<>>
    /\ submitted = 0
    /\ idx = 1
    /\ batch_results = <<>>
    /\ sys_stdout = Orig
    /\ sys_stderr = Orig
    /\ out = <<>>
    /\ diag = FALSE
    /\ status = 0 - 1
    /\ tpc = <<>>
    /\ saved_out = <<>>
    /\ saved_err = <<>>
    /\ current_start = <<>>
    /\ calls = <<>>
    /\ results = <<>>
    /\ ret = <<>>
    /\ lastDone = [s \in Symbols |-> 0]

\* a JSON array as the single argument
InitBatch ==
    \E b \in Batches \cup {<<u>> : u \in FieldUnits} \cup {PoolBatch} :
        InitWith(<<JsonText(Reqs(b))>>, TRUE, EmptyText, <<Today, 1>>, Ups(b))

\* other texts as the single argument, two arguments, and input on stdin
InitCli ==
    \/ \E t \in {BrokenJson, Plain("not json", BadDateStr), EmptyText} :
           InitWith(<<t>>, TRUE, EmptyText, <<Today, 1>>, <<>>)
    \/ InitWith(<<Plain("mac", BadDateStr), Plain("fon", BadDateStr)>>, TRUE,
                EmptyText, <<Today, 1>>, <<>>)
    \/ InitWith(<<>>, TRUE, EmptyText, <<Today, 1>>, <<>>)
    \/ \E t \in {BrokenJson, Plain("not json", BadDateStr), EmptyText} :
           InitWith(<<>>, FALSE, t, <<Today, 1>>, <<>>)
    \/ \E u \in {MarketOk, FundPartial, Dropped} :
           InitWith(<<>>, FALSE, JsonText(<<u[1]>>), <<Today, 1>>, <<u[2]>>)

\* legacy mode, fund family: every start date, time of day and answers
InitLegacyFund ==
    \E d \in StartDates, tod \in {0, 1}, a \in [1..3 -> ChunkAnswers] :
        InitWith(<<Plain("mac", BadDateStr), Plain("fon", BadDateStr), Plain("", d)>>,
                 TRUE, EmptyText, <<Today, tod>>, <<a>>)

\* legacy mode: symbol, type and start date as three arguments
InitLegacy ==
    \E sym \in {"btc", "thyao.is", ""},
       typ \in {"kripto", "hisse", "abd", "befas", "xyz"},
       a \in ChunkAnswers :
        InitWith(<<Plain(sym, BadDateStr), Plain(typ, BadDateStr),
                   Plain("", DateStr(Today - 1))>>,
                 TRUE, EmptyText, <<Today, 1>>, <<<<a>>>>)

\* the arguments of the collaborator scripts: none, or one symbol
ScriptArgs == {<<>>, <<Plain("btc", BadDateStr)>>, <<Plain("mac", BadDateStr)>>}

\* what the lookups of a collaborator script can yield
Lookups(scr) ==
    CASE scr = GetAssetName ->
             [csv : {"absent", "miss", "hit"},
              info : {"long", "short", "none", "timeout", "raises"}]
      [] scr = GetEtfName ->
             [csv : {"absent", "miss", "hit"}, info : {"long", "none", "raises"}]
      [] scr \in {FetchBistPrice, FetchUsStockPrice} -> {"ok", "raises"}
      [] scr \in {FetchTefasPrice, FetchBefasPrice, FetchCryptoPrice} ->
             {"ok", "empty", "raises"}
      [] scr = FetchEtfDatabase -> {"ok", "raises", "nocolumns"}
      [] OTHER -> {"ok", "raises", "nocolumns"} \X {"ok", "raises", "nocolumns"}

CollaboratorScripts ==
    {GetAssetName, GetEtfName, FetchBistPrice, FetchUsStockPrice, FetchTefasPrice,
     FetchBefasPrice, FetchCryptoPrice, FetchEtfDatabase, TumPiyasaListesi}

\* a run of a collaborator script
InitScript ==
    \E scr \in CollaboratorScripts :
        \E a \in ScriptArgs, u \in Lookups(scr) :
            /\ script = scr
            /\ disk = {}
            /\ argv = a
            /\ stdin_tty = TRUE
            /\ stdin_text = EmptyText
            /\ now = <<Today, 1>>
            /\ up = u
            /\ pc = "script"
            /\ input_arg = EmptyText
            /\ requests = <<>>
            /\ submitted = 0
            /\ idx = 1
            /\ batch_results = <<>>
            /\ sys_stdout = Orig
            /\ sys_stderr = Orig
            /\ out = <<>>
            /\ diag = FALSE
            /\ status = 0 - 1
            /\ tpc = <<>>
            /\ saved_out = <<>>
            /\ saved_err = <<>>
            /\ current_start = <<>>
            /\ calls = <<>>
            /\ results = <<>>
            /\ ret = <<>>
            /\ lastDone = [s \in Symbols |-> 0]

\* the pool scenario: more requests than worker threads, next to the small
\* inputs of the other modes
InitPool ==
    \/ \E b \in {PoolBatch, <<FundPartial, MarketOk>>,
                  <<MarketOk, MarketFail, FundPartial>>} :
           InitWith(<<JsonText(Reqs(b))>>, TRUE, EmptyText, <<Today, 1>>, Ups(b))
    \/ InitCli
    \/ InitLegacy
    \/ InitScript

Init == InitBatch \/ InitCli \/ InitLegacy \/ InitLegacyFund \/ InitScript

(* ---------------------------- specification --------------------------- *)

Next ==
    \/ ReadInput
    \/ ParseBatch
    \/ LegacyCall
    \/ LegacyEmpty
    \/ Submit
    \/ Collect
    \/ Shutdown
    \/ PrintBatch
    \/ LegacyPrint
    \/ Except
    \/ LegacyFetch
    \/ \E i \in Tasks : Start(i)
    \/ \E i \in Tasks : ProcessReq(i)
    \/ \E i \in Tasks : Download(i)
    \/ \E i \in Tasks : Chunk(i)
    \/ \E i \in Tasks : LeaveLoop(i)
    \/ AssetName
    \/ EtfName
    \/ BistPrice
    \/ UsStockPrice
    \/ TefasPrice
    \/ BefasPrice
    \/ CryptoPrice
    \/ EtfDatabase
    \/ PiyasaStocks
    \/ PiyasaEtfs
    \/ PiyasaSave

Spec == Init /\ [][Next]_vars

\* the process does not stop while a thread can take a step: the scheduler
\* runs some runnable thread, and every upstream call returns or raises
Fairness == WF_vars(Next)

FairSpec == Spec /\ Fairness

\* the pool scenario under the same fairness
PoolSpec == InitPool /\ [][Next]_vars /\ Fairness

\* the chunk scenario under the same fairness: the fund family in legacy
\* mode with every start date, next to the inputs of the pool scenario
ChunkSpec == (InitLegacyFund \/ InitPool) /\ [][Next]_vars /\ Fairness

(* ------------------------- claims: vocabulary ------------------------- *)

\* the run took the batch branch with a parsed array
BatchMode == pc \notin {"start", "try"} /\ input_arg.k = "json" /\ pc # "legacy"
    /\ StartsWithBracket(input_arg)

\* the process of fetch-asset-history.py has ended
Exited == pc = "exit" /\ script = MainScript

\* the requests of the array that pass the validation of process_req
ValidTasks == {i \in Tasks : requests[i].obj /\ Valid(requests[i])}

\* every element of the array is a JSON object
AllObjects == \A i \in Tasks : requests[i].obj

\* the symbols of the valid requests
ValidSymbols == {requests[i].symbol : i \in ValidTasks}

\* the keys of an emitted JSON object, and the value under a key
Keys(doc) == {doc.items[k][1] : k \in 1..Len(doc.items)}
ValueOf(doc, key) == doc.items[IndexOf(doc.items, key, 1)][2]

\* no key occurs twice in the object
KeysDistinct(doc) ==
    \A k1, k2 \in 1..Len(doc.items) : doc.items[k1][1] = doc.items[k2][1] => k1 = k2

\* the last request of the input array that is valid and has symbol s
LastInInput(s) ==
    CHOOSE i \in ValidTasks :
        /\ requests[i].symbol = s
        /\ \A j \in ValidTasks : requests[j].symbol = s => j <= i

\* the series of a fund request when no other thread interferes: the
\* converted rows of its windows, one window after the other
RECURSIVE FundSeries(_, _, _)
FundSeries(i, start, k) ==
    IF ~DtLess(start, now) THEN <<>>
    ELSE (IF AnswerAt(i, k).raises THEN <<>>
          ELSE Points(GoodPrefix(AnswerAt(i, k).rows)))
         \o FundSeries(i, DtPlus(ChunkEnd(start, now), StepDays), k + 1)

\* the series of request i when no other thread interferes
OwnSeries(i) ==
    LET req == requests[i] IN
    IF IsFund(req.type)
    THEN FundSeries(i, IF req.startDate.k = "date" THEN <<req.startDate.d, 0>>
                       ELSE DtPlus(now, 0 - FallbackDays), 1)
    ELSE IF AnswerAt(i, 1).raises \/ ConvertRaises(AnswerAt(i, 1).rows) THEN <<>>
    ELSE Points(AnswerAt(i, 1).rows)

\* every upstream call request i makes (or would make) fails
UpstreamFails(i) ==
    IF IsFund(requests[i].type)
    THEN \A k \in 1..Len(up[i]) : up[i][k].raises
    ELSE AnswerAt(i, 1).raises

\* the dict the result loop builds from the first n requests when every
\* request yields its own series
RECURSIVE OwnResults(_)
OwnResults(n) ==
    IF n = 0 THEN <<>>
    ELSE IF n \in ValidTasks
    THEN DictSet(OwnResults(n - 1), requests[n].symbol, OwnSeries(n))
    ELSE OwnResults(n - 1)

(* ------------------------------- claims ------------------------------- *)

\* C1: in batch mode, for an array of request objects, the key set of every
\* emitted JSON object is exactly the set of the valid requests' symbols,
\* verbatim, each once.
C1_KeysAreValidSymbols ==
    \A k \in 1..Len(out) :
        (BatchMode /\ AllObjects /\ out[k].kind = "object") =>
            /\ Keys(out[k]) = ValidSymbols
            /\ KeysDistinct(out[k])

\* C2: a valid batch request whose upstream call fails makes fetch_history
\* return the empty list without raising; the output then maps its symbol
\* to the empty array and gives every other symbol the series it would have
\* anyway.
C2_FailedFetchIsEmptyEntry ==
    BatchMode =>
        \A i \in ValidTasks :
            (UpstreamFails(i) /\ tpc[i] = "done") =>
                /\ ret[i] = Returned(requests[i].symbol, <<>>)
                /\ (Exited /\ AllObjects) =>
                       /\ Len(out) = 1
                       /\ Keys(out[1]) = ValidSymbols
                       /\ \A s \in ValidSymbols :
                              ValueOf(out[1], s) = OwnSeries(LastInInput(s))

\* C3: with two or more requests on the pool, when the dispatcher prints the
\* batch result sys.stdout is the original stream again, and the complete
\* object reaches standard output.
C3_StdoutRestoredAtPrint ==
    (BatchMode /\ Len(requests) >= 2) =>
        /\ pc = "print" => sys_stdout = Orig
        /\ (Exited /\ AllObjects) => out = <<DumpsObject(batch_results)>>

\* C4 as stated: an input that is not parseable JSON, given as the single
\* argument or on standard input, yields {} on standard output, a
\* diagnostic on the error stream and exit status 0.
C4_UnparseableGivesEmptyObject ==
    (Exited /\ Len(argv) <= 1 /\ input_arg.k # "json" /\ input_arg # EmptyText) =>
        /\ out = <<DumpsObject(<<>>)>>
        /\ diag
        /\ status = 0

\* C4 as amended: an unparseable input that starts with '[' yields {}, a
\* diagnostic and status 0; an input that does not start with '[' and comes
\* with fewer than three arguments (such as the single argument `not json`)
\* yields [] with no diagnostic and status 0.
C4_BracketDecides ==
    Exited =>
        /\ input_arg.k = "badjson" =>
               (out = <<DumpsObject(<<>>)>> /\ diag /\ status = 0)
        /\ (input_arg.k = "plain" /\ Len(argv) < 3) =>
               (out = <<DumpsArray(<<>>)>> /\ ~diag /\ status = 0)

\* C4 witness: a run ended on an input that starts with '[' and does not
\* parse, with {} on standard output and a diagnostic written.
C4_Witness ==
    /\ Exited
    /\ Len(argv) = 1
    /\ input_arg = BrokenJson
    /\ out = <<DumpsObject(<<>>)>>
    /\ diag

\* C5: with no argument and no usable standard input (a terminal, or an
\* empty pipe) the process emits the empty JSON array.
C5_NoInputGivesEmptyArray ==
    (Exited /\ Len(argv) = 0 /\ (stdin_tty \/ stdin_text = EmptyText)) =>
        out = <<DumpsArray(<<>>)>>

\* C6: in batch mode nothing is on standard output while a submitted request
\* is unfinished, also when collecting a result raised and {} is printed;
\* and at most one document is ever printed.
C6_NoOutputBeforeAllDone ==
    BatchMode =>
        /\ (out # <<>> \/ pc \in {"print", "except", "exit"}) =>
               \A i \in Tasks : tpc[i] = "done"
        /\ Len(out) <= 1

\* C6 witness: the result loop met a task's exception before the last
\* future, and {} was printed with every task finished.
C6_Witness ==
    /\ BatchMode
    /\ Exited
    /\ Len(requests) >= 2
    /\ idx < Len(requests)
    /\ ret[idx].exc
    /\ out = <<DumpsObject(<<>>)>>
    /\ \A i \in Tasks : tpc[i] = "done"

\* C7: at most MaxWorkers requests are on the pool's threads at any moment;
\* a queued request is taken up only while fewer than MaxWorkers are
\* running; and every request of the array is eventually taken up.
C7_PoolBound ==
    /\ [](Cardinality(Running) <= MaxWorkers)
    /\ [][\A i \in Tasks :
              (tpc[i] = "queued" /\ tpc'[i] = "run") =>
                  Cardinality(Running) < MaxWorkers]_vars
    /\ BatchMode ~> (\A i \in Tasks : tpc[i] \notin {"new", "queued"})

\* C7 witness: MaxWorkers requests are running and a further one waits in
\* the queue.
C7_Witness ==
    /\ BatchMode
    /\ Cardinality(Running) = MaxWorkers
    /\ \E i \in Tasks : tpc[i] = "queued"

\* C8 as stated: the series emitted for a symbol is the result of the
\* request with that symbol that completed last.
C8_LastCompletedWins ==
    (BatchMode /\ Exited /\ Len(out) = 1) =>
        \A s \in Keys(out[1]) : ValueOf(out[1], s) = ret[lastDone[s]].data

\* C8 as amended: the series emitted for a symbol is the result of the
\* request with that symbol that stands last in the input array, whatever
\* the order in which the workers completed.
C8_LastInInputWins ==
    (BatchMode /\ Exited /\ Len(out) = 1) =>
        \A s \in Keys(out[1]) : ValueOf(out[1], s) = ret[LastInInput(s)].data

\* C8 witness: an object was emitted for a symbol of two requests with
\* different results, and the one later in the input completed first.
C8_Witness ==
    /\ BatchMode
    /\ Exited
    /\ Len(out) = 1
    /\ \E s \in Keys(out[1]) :
           /\ lastDone[s] < LastInInput(s)
           /\ ret[lastDone[s]].data # ret[LastInInput(s)].data
           /\ ValueOf(out[1], s) = ret[LastInInput(s)].data

\* C9: the emitted document is determined by the input array and the
\* upstream's answers alone, so two runs on the same input emit the same
\* bytes whatever the order of the worker threads.
C9_OutputDeterminedByInput ==
    (BatchMode /\ Exited) =>
        out = <<IF AllObjects THEN DumpsObject(OwnResults(Len(requests)))
                ELSE DumpsObject(<<>>)>>

\* the fund requests with a parseable start date not later than today
CoveringTasks ==
    {i \in Tasks : /\ requests[i].obj
                   /\ pc = "legacy" \/ Valid(requests[i])
                   /\ IsFund(requests[i].type)
                   /\ requests[i].startDate.k = "date"
                   /\ requests[i].startDate.d <= Today}

\* C10: for a fund request with a parseable start date not later than today
\* the windows sent upstream start at the start date, each next one starts
\* the day after the previous end, and the last one ends today.
C10_WindowsCoverRange ==
    \A i \in CoveringTasks :
        tpc[i] = "done" =>
            /\ Len(calls[i]) >= 1
            /\ calls[i][1].start = requests[i].startDate
            /\ \A k \in 1..Len(calls[i]) : calls[i][k].start.d <= calls[i][k].end
            /\ \A k \in 1..(Len(calls[i]) - 1) :
                   calls[i][k + 1].start.d = calls[i][k].end + 1
            /\ calls[i][Len(calls[i])].end = Today

\* the requests that reached the fund client
FundTasks == {i \in Tasks : calls[i] # <<>> /\ calls[i][1].src = "tefas"}

\* the number of calendar dates from a window's start through its end, as
\* passed to the fund client
Width(call) == call.end - call.start.d + 1

\* C11 as stated: every window sent to the fund client spans ChunkDays
\* calendar dates, start through end, except the last one, which spans at
\* most ChunkDays dates.
C11_WindowsSpanChunkDays ==
    \A i \in FundTasks :
        /\ \A k \in 1..(Len(calls[i]) - 1) : Width(calls[i][k]) = ChunkDays
        /\ \A k \in 1..Len(calls[i]) : Width(calls[i][k]) <= ChunkDays

\* C11 as amended: a window ends ChunkDays days after its start, so it spans
\* ChunkDays + 1 calendar dates, start through end; only the last window
\* can be shorter, and it spans at least one date and at most ChunkDays + 1.
C11_WindowsSpanChunkDaysPlusOne ==
    \A i \in FundTasks :
        /\ \A k \in 1..(Len(calls[i]) - 1) : Width(calls[i][k]) = ChunkDays + 1
        /\ \A k \in 1..Len(calls[i]) :
               Width(calls[i][k]) >= 1 /\ Width(calls[i][k]) <= ChunkDays + 1

\* C11 witness: a finished fund request sent a full window followed by a
\* truncated last window.
C11_Witness ==
    \E i \in FundTasks :
        /\ tpc[i] = "done"
        /\ Len(calls[i]) >= 2
        /\ Width(calls[i][1]) = ChunkDays + 1
        /\ Width(calls[i][Len(calls[i])]) < ChunkDays + 1

\* the rows the fund client returned to the first n calls of request i, in
\* the order of the calls
RECURSIVE ReturnedRows(_, _)
ReturnedRows(i, n) ==
    IF n = 0 THEN <<>>
    ELSE ReturnedRows(i, n - 1)
             \o (IF AnswerAt(i, n).raises THEN <<>> ELSE AnswerAt(i, n).rows)

\* C12: the series a fund request returns is the concatenation, in window
\* order, of the rows its windows' upstream calls returned: as many points
\* as rows, none dropped, duplicated or reordered.
C12_SeriesIsConcatenation ==
    \A i \in FundTasks :
        (tpc[i] = "done" /\ ~ret[i].exc) =>
            /\ Len(ret[i].data) = Len(ReturnedRows(i, Len(calls[i])))
            /\ \A k \in 1..Len(ret[i].data) :
                   /\ ret[i].data[k].date = ReturnedRows(i, Len(calls[i]))[k].date
                   /\ ret[i].data[k].price = ReturnedRows(i, Len(calls[i]))[k].price

\* C13: in batch mode an element of the array that is not a valid request
\* (a field missing, null or empty, or no object at all) is dropped
\* silently: no upstream call is made for it, it adds no key to the output,
\* and every valid request of the array appears in the one emitted object
\* with its series.
C13_InvalidElementsDropped ==
    (BatchMode /\ Exited) =>
        /\ \A i \in Tasks \ ValidTasks : calls[i] = <<>>
        /\ Len(out) = 1
        /\ Keys(out[1]) = ValidSymbols
        /\ \A s \in ValidSymbols : ValueOf(out[1], s) = OwnSeries(LastInInput(s))

\* C14: every run, in batch mode and in legacy mode, for every input and
\* every combination of upstream answers, ends with exactly one JSON
\* document on standard output and exit status 0.
C14_OneDocumentStatusZero ==
    Exited => (Len(out) = 1 /\ status = 0)

\* a collaborator script's process has ended
ScriptExited == pc = "exit" /\ script # MainScript

\* the run lacked its argument, or a lookup of the run failed
ScriptFailed ==
    CASE script \in {GetAssetName, GetEtfName} ->
             Len(argv) < 1 \/ (up.csv # "hit" /\ up.info \in {"timeout", "raises"})
      [] script \in {FetchBistPrice, FetchUsStockPrice, FetchTefasPrice,
                     FetchBefasPrice, FetchCryptoPrice} ->
             Len(argv) < 1 \/ up = "raises"
      [] script = FetchEtfDatabase -> up # "ok"
      [] script = TumPiyasaListesi -> up[1] = "raises" \/ up[2] = "raises"
      [] OTHER -> FALSE

\* a document of the output tells of an error: an error object, a name
\* object with one of the two stand-in names, or a line of a failed download
ErrorReported ==
    \E k \in 1..Len(out) :
        \/ /\ out[k].kind = "object"
           /\ \/ out[k].items[1][1] = "error"
              \/ out[k].items[1] \in {<<"name", IsimBulunamadi>>, <<"name", BilinmeyenKod>>}
        \/ /\ out[k].kind = "text"
           /\ out[k].items \in {<<"Hisse", "yuklenemedi">>, <<"ETF", "yuklenemedi">>}

\* C15: every collaborator script other than fetch-etf-database.py ends with
\* status 0 on every path, a missing argument and a failed lookup included,
\* and reports the error in its output; fetch-etf-database.py ends with a
\* non-zero status exactly when its download or parse fails.
C15_CollaboratorsExitZero ==
    ScriptExited =>
        /\ script # FetchEtfDatabase =>
               /\ status = 0
               /\ ScriptFailed => ErrorReported
        /\ script = FetchEtfDatabase => (status # 0 <=> up # "ok")

\* the step is a pass of request i's chunk loop whose window raises, in the
\* upstream call or while its rows are converted
FailedWindow(i) ==
    /\ tpc[i] = "loop"
    /\ Len(calls'[i]) = Len(calls[i]) + 1
    /\ \/ AnswerAt(i, Len(calls[i]) + 1).raises
       \/ ConvertRaises(AnswerAt(i, Len(calls[i]) + 1).rows)

\* C16: a window of the chunk loop whose processing raises is skipped: the
\* collected points are after it what they were before it, and the loop
\* goes on with the window that starts the day after its end.
C16_FailedWindowSkipped ==
    [][\A i \in Tasks :
           FailedWindow(i) =>
               /\ results'[i] = results[i]
               /\ tpc'[i] = "loop"
               /\ current_start'[i] =
                      DtPlus(ChunkEnd(current_start[i], now), StepDays)]_vars

\* C17: the source fetch_history queries depends on the type alone: every
\* call of a `fon` request goes to the fund client with kind YAT, every call
\* of a `befas` request to the fund client with kind EMK, and every call of
\* a request of any other type to the market-data provider, whatever the
\* symbol.
C17_SourceByTypeAlone ==
    \A i \in Tasks :
        \A k \in 1..Len(calls[i]) :
            /\ requests[i].type = "fon" =>
                   (calls[i][k].src = "tefas" /\ calls[i][k].kind = "YAT")
            /\ requests[i].type = "befas" =>
                   (calls[i][k].src = "tefas" /\ calls[i][k].kind = "EMK")
            /\ requests[i].type \notin {"fon", "befas"} =>
                   calls[i][k].src = "yfinance"

\* C17 witness: in one run a `befas` request has queried the fund client
\* with kind EMK and a request of another type the market-data provider.
C17_Witness ==
    \E i, j \in Tasks :
        /\ requests[i].type = "befas"
        /\ calls[i] # <<>>
        /\ calls[i][1].src = "tefas"
        /\ calls[i][1].kind = "EMK"
        /\ requests[j].type \notin {"fon", "befas"}
        /\ calls[j] # <<>>
        /\ calls[j][1].src = "yfinance"

\* the fund requests that reach fetch_history with a start date strptime
\* rejects
FallbackTasks ==
    {i \in Tasks : /\ requests[i].obj
                   /\ pc = "legacy" \/ Valid(requests[i])
                   /\ IsFund(requests[i].type)
                   /\ requests[i].startDate.k # "date"}

\* what the one window of request i yields: the converted rows, nothing
\* when the call raises
WindowYield(i) ==
    IF AnswerAt(i, 1).raises THEN <<>> ELSE Points(GoodPrefix(AnswerAt(i, 1).rows))

\* C18: a fund request whose start date does not parse makes exactly one
\* upstream call, for the window from FallbackDays days before now to
\* today, and fetch_history returns what that window yields; nothing is
\* written to the error stream for the start date.
C18_FallbackWindow ==
    \A i \in FallbackTasks :
        tpc[i] = "done" =>
            /\ Len(calls[i]) = 1
            /\ calls[i][1].start = DateStr(now[1] - FallbackDays)
            /\ calls[i][1].end = now[1]
            /\ ~ret[i].exc
            /\ ret[i].data = WindowYield(i)
            /\ (Len(requests) = 1 /\ diag) =>
                   (AnswerAt(i, 1).raises \/ ConvertRaises(AnswerAt(i, 1).rows))

\* the fund requests that reach fetch_history with a start date after today
FutureTasks ==
    {i \in Tasks : /\ requests[i].obj
                   /\ pc = "legacy" \/ Valid(requests[i])
                   /\ IsFund(requests[i].type)
                   /\ requests[i].startDate.k = "date"
                   /\ requests[i].startDate.d > now[1]}

\* the calls of every fund request are in strictly increasing order of
\* their start dates, none starts after today, and a request with a start
\* date in the future ends with no call and the empty series
CallsInOrder ==
    /\ \A i \in FundTasks :
           /\ \A k \in 1..(Len(calls[i]) - 1) :
                  calls[i][k].start.d < calls[i][k + 1].start.d
           /\ \A k \in 1..Len(calls[i]) : calls[i][k].start.d <= now[1]
    /\ \A i \in FutureTasks :
           /\ calls[i] = <<>>
           /\ tpc[i] = "done" => ret[i] = Returned(requests[i].symbol, <<>>)

\* a step in which request i issues a call either moves its window start
\* strictly forward or ends its loop
StartAdvances ==
    \A i \in Tasks :
        (tpc[i] = "loop" /\ calls'[i] # calls[i]) =>
            \/ DtLess(current_start[i], current_start'[i])
            \/ tpc'[i] = "done"

\* C19: the chunk loop of every fund request terminates, whatever its start
\* date and whether its windows' calls return or raise: each pass moves the
\* window start strictly forward, the calls are issued in increasing order
\* of their start dates and none with a start after the current time, and a
\* start date in the future gives no call and the empty series.
C19_ChunkLoopTerminates ==
    /\ []CallsInOrder
    /\ [][StartAdvances]_vars
    /\ (\E i \in Tasks : tpc[i] = "loop") ~> (\A i \in Tasks : tpc[i] # "loop")

\* C19 witness: a fund request finished after three windows, the first two
\* of which failed.
C19_Witness ==
    \E i \in FundTasks :
        /\ tpc[i] = "done"
        /\ Len(calls[i]) = 3
        /\ AnswerAt(i, 1).raises
        /\ AnswerAt(i, 2).raises
        /\ ~ret[i].exc


=============================================================================
